---- MODULE Spec2Model ----
(***************************************************************************)
(* A model of tokens.py: the conversion of a design-token document into    *)
(* the Android light/dark colour maps.  Python strings are modelled as     *)
(* sequences of one-character strings, so that the regular-expression and  *)
(* split/join steps of the program are computed and not assumed.  Python   *)
(* dicts are modelled as functions whose domain is the set of keys.        *)
(***************************************************************************)
EXTENDS Integers, Sequences, FiniteSets, TLC

VARIABLES data, pc, idx, light_colors, dark_colors, primitive_color_map,
          light_semantic, dark_semantic, gradients, files, diagnostics, call, ret

vars == <<data, pc, idx, light_colors, dark_colors, primitive_color_map,
          light_semantic, dark_semantic, gradients, files, diagnostics, call, ret>>

(***************************************************************************)
(* Characters and the string primitives of Python used by the program.     *)
(***************************************************************************)
LowerChars == <<"a","b","c","d","e","f","g","h","i","j","k","l","m",
                "n","o","p","q","r","s","t","u","v","w","x","y","z">>

UpperChars == <<"A","B","C","D","E","F","G","H","I","J","K","L","M",
                "N","O","P","Q","R","S","T","U","V","W","X","Y","Z">>

DigitChars == {"0","1","2","3","4","5","6","7","8","9"}

Range(f) == {f[x] : x \in DOMAIN f}

AlnumChars == Range(LowerChars) \cup Range(UpperChars) \cup DigitChars

\* the character class [a-zA-Z0-9] of the regular expressions
IsAlnum(c) == c \in AlnumChars

\* the character class \s
IsSpace(c) == c \in {" ", "\t", "\n"}

LowerOf == [c \in Range(UpperChars) |->
               LowerChars[CHOOSE k \in DOMAIN UpperChars : UpperChars[k] = c]]

\* str.lower() on one character
LowerChar(c) == IF c \in DOMAIN LowerOf THEN LowerOf[c] ELSE c

\* str.lower()
Lower(s) == [k \in 1..Len(s) |-> LowerChar(s[k])]

\* str.isdigit() (ASCII): non-empty and every character a digit
IsDigit(s) == Len(s) > 0 /\ \A k \in 1..Len(s) : s[k] \in DigitChars

\* s[a-1:b] of Python, as a sequence (empty when a > b)
Slice(s, a, b) == IF a > b THEN <<>> ELSE SubSeq(s, a, b)

\* str.startswith
StartsWith(s, p) == Len(p) <= Len(s) /\ \A j \in 1..Len(p) : s[j] = p[j]

\* str.endswith
EndsWith(s, p) == Len(p) <= Len(s) /\ Slice(s, Len(s) - Len(p) + 1, Len(s)) = p

\* the literal `sub` occurs in s at position k
OccursAt(s, sub, k) ==
    k + Len(sub) - 1 <= Len(s) /\ \A j \in 1..Len(sub) : s[k + j - 1] = sub[j]

\* `sub in s`
Contains(s, sub) == \E k \in 1..(Len(s) + 1) : OccursAt(s, sub, k)

\* the least position >= from holding character c, 0 when there is none
FindChar(s, c, from) ==
    IF \E k \in from..Len(s) : s[k] = c
    THEN CHOOSE k \in from..Len(s) : s[k] = c /\ \A j \in from..(k - 1) : s[j] # c
    ELSE 0

\* the position after the run of whitespace that starts at i (greedy \s*)
SkipSpaces(s, i) ==
    IF \E k \in i..Len(s) : ~IsSpace(s[k])
    THEN CHOOSE k \in i..Len(s) : ~IsSpace(s[k]) /\ \A j \in i..(k - 1) : IsSpace(s[j])
    ELSE Len(s) + 1

RECURSIVE SplitFrom(_, _, _)
SplitFrom(s, sep, i) ==
    LET e == FindChar(s, sep, i)
    IN  IF e = 0 THEN <<Slice(s, i, Len(s))>>
        ELSE <<Slice(s, i, e - 1)>> \o SplitFrom(s, sep, e + 1)

\* str.split(sep) for a one-character separator
Split(s, sep) == SplitFrom(s, sep, 1)

RECURSIVE Join(_, _)
\* sep.join(parts)
Join(parts, sep) ==
    IF Len(parts) = 0 THEN <<>>
    ELSE IF Len(parts) = 1 THEN parts[1]
    ELSE parts[1] \o sep \o Join(Tail(parts), sep)

\* str.replace(a, b) for one-character a and b
ReplaceChar(s, a, b) == [k \in 1..Len(s) |-> IF s[k] = a THEN b ELSE s[k]]

(***************************************************************************)
(* format_xml_name: the four per-segment regular-expression steps.         *)
(***************************************************************************)
\* end of the match of \s*\([^)]*\) starting at i, 0 when there is no match
ParenMatchEnd(s, i) ==
    LET j == SkipSpaces(s, i)
    IN  IF j <= Len(s) /\ s[j] = "(" THEN FindChar(s, ")", j + 1) ELSE 0

RECURSIVE StripParensFrom(_, _)
StripParensFrom(s, i) ==
    IF i > Len(s) THEN <<>>
    ELSE LET e == ParenMatchEnd(s, i)
         IN  IF e > 0 THEN StripParensFrom(s, e + 1)
             ELSE <<s[i]>> \o StripParensFrom(s, i + 1)

\* re.sub(r'\s*\([^)]*\)', '', part)
StripParens(s) == StripParensFrom(s, 1)

\* re.sub(r'[^a-zA-Z0-9]', '_', part)
NonAlnumToUnderscore(s) == [k \in 1..Len(s) |-> IF IsAlnum(s[k]) THEN s[k] ELSE "_"]

\* re.sub(r'_+', '_', part)
CollapseUnderscores(s) ==
    SelectSeq([k \in 1..Len(s) |-> IF s[k] = "_" /\ k > 1 /\ s[k - 1] = "_"
                                   THEN "" ELSE s[k]],
              LAMBDA c : c # "")

\* part.strip('_')
StripUnderscores(s) ==
    IF \A k \in 1..Len(s) : s[k] = "_" THEN <<>>
    ELSE LET a == CHOOSE k \in 1..Len(s) : s[k] # "_" /\ \A j \in 1..(k - 1) : s[j] = "_"
             b == CHOOSE k \in 1..Len(s) : s[k] # "_" /\ \A j \in (k + 1)..Len(s) : s[j] = "_"
         IN  Slice(s, a, b)

\* one segment after the loop body of format_xml_name, before the emptiness test
CleanPart(part) ==
    Lower(StripUnderscores(CollapseUnderscores(NonAlnumToUnderscore(StripParens(part)))))

\* cleaned_parts after the loop: empty segments are dropped
CleanedParts(name_parts) ==
    SelectSeq([k \in 1..Len(name_parts) |-> CleanPart(name_parts[k])],
              LAMBDA p : Len(p) > 0)

sColors == <<"c","o","l","o","r","s">>
sBase == <<"b","a","s","e">>
sComponent == <<"c","o","m","p","o","n","e","n","t">>
sUnderscore == <<"_">>

\* one `if cleaned_parts and cleaned_parts[0] == word` step
DropLeading(parts, word) ==
    IF Len(parts) > 0 /\ parts[1] = word THEN Tail(parts) ELSE parts

\* the last prefix step, which needs more than one segment
DropLeadingIfMany(parts, word) ==
    IF Len(parts) > 1 /\ parts[1] = word THEN Tail(parts) ELSE parts

\* cleaned_parts after the four prefix steps
StripPrefixes(parts) ==
    DropLeadingIfMany(
        DropLeading(DropLeading(DropLeading(parts, sColors), sBase), sComponent),
        sColors)

\* a variant of NameOfParts that joins every remaining segment
NameOfPartsJoined(parts) == Join(parts, sUnderscore)

\* a variant of NameOfParts that keeps the parent for every leaf, numeric or not
NameOfPartsWithParent(parts) ==
    IF Len(parts) > 1
    THEN parts[Len(parts) - 1] \o sUnderscore \o parts[Len(parts)]
    ELSE Join(parts, sUnderscore)

\* the three returns of format_xml_name, applied to the stripped list
NameOfParts(parts) ==
    IF Len(parts) > 1 /\ IsDigit(parts[Len(parts)])
    THEN parts[Len(parts) - 1] \o sUnderscore \o parts[Len(parts)]
    ELSE IF Len(parts) > 1 THEN parts[Len(parts)]
    ELSE Join(parts, sUnderscore)

format_xml_name(name_parts) == NameOfParts(StripPrefixes(CleanedParts(name_parts)))

(***************************************************************************)
(* Python values that are not strings, and dicts.                          *)
(***************************************************************************)
\* Python's None; no string equals it (every string is made of single characters)
None == <<"None">>

\* the outcome of a call that raised an exception nothing catches
Raised == <<"Traceback">>

\* a value that is a dict and not a string
DictValue == <<"dict">>

\* `if x:` for x a string or None
Truthy(x) == x # None /\ Len(x) > 0

\* {} of Python
EmptyDict == [k \in {} |-> None]

\* d[k] = v
\* a variant of Put that keeps the value a key already has
PutIfAbsent(d, k, v) == d @@ (k :> v)

Put(d, k, v) == (k :> v) @@ d

\* d.update(e)
Update(d, e) == e @@ d

sPrimitives == <<"p","r","i","m","i","t","i","v","e","s">>
sPrimitivesDot == <<"p","r","i","m","i","t","i","v","e","s",".">>
sColorModesRoot == <<"1","."," ","c","o","l","o","r"," ","m","o","d","e","s">>
sColorModesRef == <<"{","1","."," ","c","o","l","o","r"," ","m","o","d","e","s">>
sColorModes == <<"c","o","l","o","r"," ","m","o","d","e","s">>
sSpacingRoot == <<"3","."," ","s","p","a","c","i","n","g">>
sGradient == <<"g","r","a","d","i","e","n","t">>
sLightMode == <<"l","i","g","h","t"," ","m","o","d","e">>
sDarkMode == <<"d","a","r","k"," ","m","o","d","e">>
sLightModeParen == <<"(","l","i","g","h","t"," ","m","o","d","e",")">>
sDarkModeParen == <<"(","d","a","r","k"," ","m","o","d","e",")">>
sGray == <<"g","r","a","y">>
sSpacing == <<"s","p","a","c","i","n","g">>
sCustomGradient == <<"c","u","s","t","o","m","-","g","r","a","d","i","e","n","t">>
sArrow == <<" ","-",">"," ">>
sColor == <<"c","o","l","o","r">>
sColorRefPrefix == <<"@","c","o","l","o","r","/">>
sSpace == <<" ">>
sDot == <<".">>

(***************************************************************************)
(* The small predicates and extract_color_value.                           *)
(***************************************************************************)
\* a node is [type |-> string or None, value |-> string or None]; None: key absent
is_color_node(node) == node.type = sColor /\ node.value # None

should_include_in_light(node_name) ==
    Contains(Lower(node_name), sLightMode) \/ ~Contains(Lower(node_name), sLightMode)

should_include_in_dark(node_name) ==
    Contains(Lower(node_name), sDarkMode) \/ ~Contains(Lower(node_name), sLightMode)

\* a variant of extract_color_value that keeps the alpha channel
extract_color_value_kept(value) == value

extract_color_value(value) == IF Len(value) = 9 THEN Slice(value, 1, 7) ELSE value

(***************************************************************************)
(* The reference resolver.                                                 *)
(***************************************************************************)
\* end of the match of \s*<lit> starting at i, 0 when there is no match
AnnotMatchEnd(s, lit, i) ==
    LET j == SkipSpaces(s, i)
    IN  IF OccursAt(s, lit, j) THEN j + Len(lit) - 1 ELSE 0

RECURSIVE StripAnnotFrom(_, _, _)
StripAnnotFrom(s, lit, i) ==
    IF i > Len(s) THEN <<>>
    ELSE LET e == AnnotMatchEnd(s, lit, i)
         IN  IF e > 0 THEN StripAnnotFrom(s, lit, e + 1)
             ELSE <<s[i]>> \o StripAnnotFrom(s, lit, i + 1)

\* re.sub(r'\s*\(light mode\)', '', reference), and the same for (dark mode)
StripAnnot(s, lit) == StripAnnotFrom(s, lit, 1)

\* filtered_parts of resolve_primitives_reference
FilteredParts(reference) ==
    LET stripped == StripAnnot(StripAnnot(reference, sLightModeParen), sDarkModeParen)
        path_parts == Split(stripped, ".")
        kept == SelectSeq(path_parts, LAMBDA p : p \notin {sPrimitives, sColors, sBase})
    IN  SelectSeq([k \in 1..Len(kept) |-> ReplaceChar(kept[k], " ", "_")],
                  LAMBDA p : Len(p) > 0)

\* strategy 1: '<second-to-last>_<last>'
LastTwoName(fp) == fp[Len(fp) - 1] \o sUnderscore \o fp[Len(fp)]

\* strategy 2: '<third-to-last>_<second-to-last>_<last>'
LastThreeName(fp) ==
    fp[Len(fp) - 2] \o sUnderscore \o fp[Len(fp) - 1] \o sUnderscore \o fp[Len(fp)]

\* strategy 3: '<third-to-last><second-to-last>_<last>'
ConcatFamilyName(fp) == fp[Len(fp) - 2] \o fp[Len(fp) - 1] \o sUnderscore \o fp[Len(fp)]

\* the name the fallback loop tries for the numeric segment `part`
FallbackName(fp, part) == fp[Len(fp) - 1] \o sUnderscore \o part

\* the fallback loop: the first segment, in order, whose name is a key
FallbackResult(fp, primitive_map) ==
    LET hits == {k \in 1..Len(fp) : /\ IsDigit(fp[k])
                                    /\ Len(fp) > 1
                                    /\ FallbackName(fp, fp[k]) \in DOMAIN primitive_map}
    IN  IF hits = {} THEN None
        ELSE FallbackName(fp, fp[CHOOSE k \in hits : \A j \in hits : k <= j])

\* a variant of resolve_primitives_reference that does not look the name up
resolve_primitives_reference_unchecked(reference, primitive_map) ==
    LET fp == FilteredParts(reference)
    IN  IF Len(fp) >= 2 THEN LastTwoName(fp) ELSE None

resolve_primitives_reference(reference, primitive_map) ==
    LET fp == FilteredParts(reference)
        keys == DOMAIN primitive_map
    IN  IF Len(fp) >= 2 /\ LastTwoName(fp) \in keys THEN LastTwoName(fp)
        ELSE IF Len(fp) >= 3 /\ LastThreeName(fp) \in keys THEN LastThreeName(fp)
        ELSE IF Len(fp) >= 3 /\ ConcatFamilyName(fp) \in keys THEN ConcatFamilyName(fp)
        ELSE FallbackResult(fp, primitive_map)

\* reference[1:-1] when the reference is wrapped in braces
Unbrace(reference) ==
    IF StartsWith(reference, <<"{">>) /\ EndsWith(reference, <<"}">>)
    THEN Slice(reference, 2, Len(reference) - 1)
    ELSE reference

resolve_color_reference_to_name(reference, primitive_map) ==
    LET r == Unbrace(reference)
    IN  IF StartsWith(r, <<"#">>) THEN None
        ELSE IF StartsWith(r, sPrimitivesDot)
             THEN resolve_primitives_reference(r, primitive_map)
        ELSE IF StartsWith(r, sColorModesRoot) THEN None
        ELSE resolve_primitives_reference(r, primitive_map)

(***************************************************************************)
(* The document.  json.load gives a dict of root sections; each section is *)
(* a tree, given here by its terminal dict nodes in document order (the    *)
(* order in which the recursive `for key, value in data.items()` loops     *)
(* reach them), each with its path of keys below the section.              *)
(***************************************************************************)
\* `key in json` for the root dict
HasKey(json, key) == \E k \in DOMAIN json : json[k].key = key

\* json[key], defined when the key is present
Get(json, key) == json[CHOOSE k \in DOMAIN json : json[k].key = key].tree

\* the subsequence of `universe` at the positions in S, in universe order
RECURSIVE Pick(_, _)
Pick(universe, S) ==
    IF S = {} THEN <<>>
    ELSE LET m == CHOOSE k \in S : \A j \in S : j <= k
         IN  Pick(universe, S \ {m}) \o <<universe[m]>>

\* the trees made of at most n terminal nodes of `universe`
Trees(universe, n) ==
    {Pick(universe, S) : S \in {T \in SUBSET (DOMAIN universe) : Cardinality(T) <= n}}

PrimitiveUniverse == <<
    [path |-> << <<"c","o","l","o","r","s">>,
               <<"b","a","s","e">>,
               <<"b","r","a","n","d">>,
               <<"6","0","0">> >>,
     node |-> [type |-> <<"c","o","l","o","r">>,
               value |-> <<"#","1","1","2","2","3","3","F","F">>]],
    [path |-> << <<"c","o","l","o","r","s">>,
               <<"b","r","a","n","d"," ","(","d","a","r","k"," ","m","o","d","e",")">>,
               <<"6","0","0">> >>,
     node |-> [type |-> <<"c","o","l","o","r">>,
               value |-> <<"#","4","4","5","5","6","6">>]],
    [path |-> << <<"c","o","l","o","r","s">>,
               <<"e","r","r","o","r"," ","(","l","i","g","h","t"," ","m","o","d","e",")">>,
               <<"5","0","0">> >>,
     node |-> [type |-> <<"c","o","l","o","r">>,
               value |-> <<"#","D","9","2","D","2","0">>]],
    [path |-> << <<"c","o","l","o","r","s">>,
               <<"g","r","a","y"," ","(","l","i","g","h","t"," ","m","o","d","e",")">>,
               <<"6","0","0">> >>,
     node |-> [type |-> <<"c","o","l","o","r">>,
               value |-> <<"#","4","7","5","4","6","7">>]],
    [path |-> << <<"c","o","l","o","r","s">>,
               <<"g","r","a","y"," ","(","d","a","r","k"," ","m","o","d","e",")">>,
               <<"6","0","0">> >>,
     node |-> [type |-> <<"c","o","l","o","r">>,
               value |-> <<"#","9","4","9","6","9","C","F","F">>]],
    [path |-> << <<"c","o","l","o","r","s">>,
               <<"g","r","a","y">>,
               <<"5","0">> >>,
     node |-> [type |-> <<"c","o","l","o","r">>,
               value |-> <<"#","F","F","F">>]],
    [path |-> << <<"c","o","l","o","r","s">>,
               <<"b","l","u","e","d","a","r","k">>,
               <<"6","0","0">> >>,
     node |-> [type |-> <<"c","o","l","o","r">>,
               value |-> <<"#","0","0","4","E","E","B","8","0">>]],
    [path |-> << <<"s","p","a","c","i","n","g">>,
               <<"4">> >>,
     node |-> [type |-> <<"d","i","m","e","n","s","i","o","n">>,
               value |-> <<"1","6">>]]
>>

SemanticUniverse == <<
    [path |-> << <<"c","o","l","o","r">>,
               <<"l","i","g","h","t"," ","m","o","d","e">>,
               <<"b","u","t","t","o","n">>,
               <<"p","r","i","m","a","r","y">> >>,
     node |-> [type |-> <<"c","o","l","o","r">>,
               value |-> <<"{","p","r","i","m","i","t","i","v","e","s",".","c","o","l","o","r","s",".","b","a","s","e",".","b","r","a","n","d",".","6","0","0","}">>]],
    [path |-> << <<"c","o","l","o","r">>,
               <<"l","i","g","h","t"," ","m","o","d","e">>,
               <<"b","u","t","t","o","n">>,
               <<"s","e","c","o","n","d","a","r","y">> >>,
     node |-> [type |-> <<"c","o","l","o","r">>,
               value |-> <<"{","1","."," ","c","o","l","o","r"," ","m","o","d","e","s",".","c","o","l","o","r",".","l","i","g","h","t"," ","m","o","d","e",".","b","u","t","t","o","n",".","p","r","i","m","a","r","y","}">>]],
    [path |-> << <<"c","o","l","o","r">>,
               <<"l","i","g","h","t"," ","m","o","d","e">>,
               <<"b","u","t","t","o","n">>,
               <<"t","e","r","t","i","a","r","y">> >>,
     node |-> [type |-> <<"c","o","l","o","r">>,
               value |-> <<"{","1","."," ","c","o","l","o","r"," ","m","o","d","e","s",".","c","o","l","o","r",".","l","i","g","h","t"," ","m","o","d","e",".","b","u","t","t","o","n",".","s","e","c","o","n","d","a","r","y","}">>]],
    [path |-> << <<"c","o","l","o","r">>,
               <<"l","i","g","h","t"," ","m","o","d","e">>,
               <<"b","u","t","t","o","n">>,
               <<"g","h","o","s","t">> >>,
     node |-> [type |-> <<"c","o","l","o","r">>,
               value |-> <<"{","1","."," ","c","o","l","o","r"," ","m","o","d","e","s",".","c","o","l","o","r",".","l","i","g","h","t"," ","m","o","d","e",".","b","u","t","t","o","n",".","a","b","s","e","n","t","}">>]],
    [path |-> << <<"c","o","l","o","r">>,
               <<"l","i","g","h","t"," ","m","o","d","e">>,
               <<"l","i","n","k">>,
               <<"p","r","i","m","a","r","y">> >>,
     node |-> [type |-> <<"c","o","l","o","r">>,
               value |-> <<"{","p","r","i","m","i","t","i","v","e","s",".","c","o","l","o","r","s",".","e","r","r","o","r"," ","(","l","i","g","h","t"," ","m","o","d","e",")",".","5","0","0","}">>]],
    [path |-> << <<"c","o","l","o","r">>,
               <<"l","i","g","h","t"," ","m","o","d","e">>,
               <<"b","g">> >>,
     node |-> [type |-> <<"c","o","l","o","r">>,
               value |-> <<"{","p","r","i","m","i","t","i","v","e","s",".","c","o","l","o","r","s",".","g","r","a","y"," ","(","d","a","r","k"," ","m","o","d","e",")",".","6","0","0","}">>]],
    [path |-> << <<"c","o","l","o","r">>,
               <<"l","i","g","h","t"," ","m","o","d","e">>,
               <<"l","o","s","t">> >>,
     node |-> [type |-> <<"c","o","l","o","r">>,
               value |-> <<"{","p","r","i","m","i","t","i","v","e","s",".","c","o","l","o","r","s",".","n","o","p","e",".","1","0","0","}">>]],
    [path |-> << <<"c","o","l","o","r">>,
               <<"l","i","g","h","t"," ","m","o","d","e">>,
               <<"l","i","t","e","r","a","l">> >>,
     node |-> [type |-> <<"c","o","l","o","r">>,
               value |-> <<"#","F","F","F","F","F","F">>]],
    [path |-> << <<"c","o","l","o","r">>,
               <<"d","a","r","k"," ","m","o","d","e">>,
               <<"t","e","x","t">>,
               <<"6","0","0">> >>,
     node |-> [type |-> <<"c","o","l","o","r">>,
               value |-> <<"{","p","r","i","m","i","t","i","v","e","s",".","c","o","l","o","r","s",".","g","r","a","y"," ","(","l","i","g","h","t"," ","m","o","d","e",")",".","6","0","0","}">>]],
    [path |-> << <<"c","o","l","o","r">>,
               <<"d","a","r","k"," ","m","o","d","e">>,
               <<"b","u","t","t","o","n">>,
               <<"p","r","i","m","a","r","y">> >>,
     node |-> [type |-> <<"c","o","l","o","r">>,
               value |-> <<"{","p","r","i","m","i","t","i","v","e","s",".","c","o","l","o","r","s",".","b","a","s","e",".","b","r","a","n","d",".","6","0","0","}">>]],
    [path |-> << <<"s","h","a","r","e","d">>,
               <<"a","c","c","e","n","t">> >>,
     node |-> [type |-> <<"c","o","l","o","r">>,
               value |-> <<"{","p","r","i","m","i","t","i","v","e","s",".","c","o","l","o","r","s",".","b","a","s","e",".","b","r","a","n","d",".","6","0","0","}">>]]
>>


\* '3. spacing' and 'gradient' sections hold no colour; their contents are not read
\* by the colour passes
Section(key, tree) == [key |-> key, tree |-> tree]

\* total number of terminal nodes of the colour sections of a document
MaxNodes == 3

\* documents with all four root sections, varying the two colour trees
ColourDocuments ==
    {<<Section(sPrimitives, p), Section(sColorModesRoot, s),
       Section(sSpacingRoot, <<>>), Section(sGradient, <<>>)>> :
        <<p, s>> \in {ps \in Trees(PrimitiveUniverse, MaxNodes)
                              \X Trees(SemanticUniverse, MaxNodes) :
                        Len(ps[1]) + Len(ps[2]) <= MaxNodes}}

\* a root key that holds 'color modes' but is not the key get_node_value reads
sOtherColorModes == <<"2","."," ","C","o","l","o","r"," ","M","o","d","e","s">>

\* documents varying which root sections are present
RootDocuments ==
    LET opt(present, key, tree) == IF present THEN <<Section(key, tree)>> ELSE <<>>
        p == Pick(PrimitiveUniverse, {1, 5})
        s == Pick(SemanticUniverse, {1, 2})
    IN  {opt(hp, sPrimitives, p) \o opt(cm # None, cm, s)
            \o opt(hs, sSpacingRoot, <<>>) \o opt(hg, sGradient, <<>>) :
         hp \in BOOLEAN, cm \in {None, sColorModesRoot, sOtherColorModes},
         hs \in BOOLEAN, hg \in BOOLEAN}

\* terminal nodes of the 'gradient' section: 'rotation' is <<n>>, or <<>> when the
\* key is absent; 'stops' lists the 'color' of every stop
GradientUniverse == <<
    [path |-> << <<"g","r","a","d","i","e","n","t">>,
               <<"h","e","r","o">>,
               <<"6","0","0"," ","-",">"," ","5","0","0"," ","(","9","0","d","e","g",")">> >>,
     node |-> [type |-> sCustomGradient,
               value |-> DictValue,
               rotation |-> <<90>>,
               stops |-> << <<"#","A","A","B","B","C","C">>,
                            <<"#","1","1","2","2","3","3">> >>]],
    [path |-> << <<"g","r","a","d","i","e","n","t">>,
               <<"h","e","r","o">>,
               <<"s","i","n","g","l","e"," ","s","t","o","p">> >>,
     node |-> [type |-> sCustomGradient,
               value |-> DictValue,
               rotation |-> <<45>>,
               stops |-> << <<"#","A","A","B","B","C","C">> >>]],
    [path |-> << <<"g","r","a","d","i","e","n","t">>,
               <<"B","r","a","n","d"," ","(","d","a","r","k",")">>,
               <<"L","i","n","e","a","r"," ","0","1">> >>,
     node |-> [type |-> sCustomGradient,
               value |-> DictValue,
               rotation |-> <<>>,
               stops |-> << <<"#","1","0","1","8","2","8","F","F">>,
                            <<"#","4","7","5","4","6","7">>,
                            <<"#","D","9","2","D","2","0">> >>]],
    [path |-> << <<"s","o","l","o">> >>,
     node |-> [type |-> sCustomGradient,
               value |-> DictValue,
               rotation |-> <<180>>,
               stops |-> << <<"#","F","F","F","F","F","F">>,
                            <<"#","0","0","0","0","0","0">> >>]]
>>

MaxGradients == 2

\* documents varying the gradient tree
GradientDocuments ==
    {<<Section(sPrimitives, Pick(PrimitiveUniverse, {1})),
       Section(sColorModesRoot, Pick(SemanticUniverse, {1})),
       Section(sSpacingRoot, <<>>), Section(sGradient, g)>> :
        g \in Trees(GradientUniverse, MaxGradients)}

\* documents varying the aliases of the colour-modes tree: button/primary, its alias
\* button/secondary, the alias button/tertiary of that alias, and link/primary,
\* over the primitives brand/600, brand (dark mode)/600 and error (light mode)/500
AliasDocuments ==
    LET aliases == Pick(SemanticUniverse, {1, 2, 3, 5})
    IN  {<<Section(sPrimitives, Pick(PrimitiveUniverse, {1, 2, 3})),
           Section(sColorModesRoot, s),
           Section(sSpacingRoot, <<>>), Section(sGradient, <<>>)>> :
            s \in Trees(aliases, Len(aliases))}

Documents == ColourDocuments \cup RootDocuments \cup GradientDocuments \cup AliasDocuments

(***************************************************************************)
(* The primitive pass: one visit of traverse_primitive_colors.             *)
(***************************************************************************)
\* ' '.join(current_path).lower()
PathStr(current_path) == Lower(Join(current_path, sSpace))

\* the condition under which the visited colour is stored in light_colors
WritesLight(path_str) ==
    IF Contains(path_str, sGray)
    THEN Contains(path_str, sLightMode) \/ ~Contains(path_str, sDarkMode)
    ELSE should_include_in_light(path_str)

\* a variant of WritesDark that stores only colours marked 'dark mode'
WritesDarkMarkedOnly(path_str) == Contains(path_str, sDarkMode)

\* the condition under which the visited colour is stored in dark_colors
WritesDark(path_str) ==
    IF Contains(path_str, sGray)
    THEN ~Contains(path_str, sLightMode)
    ELSE should_include_in_dark(path_str)

\* <<light_colors, dark_colors>> after the loop body for one terminal node
VisitPrimitive(leaf, light, dark) ==
    IF is_color_node(leaf.node)
    THEN LET color_value == extract_color_value(leaf.node.value)
             xml_name == format_xml_name(leaf.path)
             path_str == PathStr(leaf.path)
         IN  << IF WritesLight(path_str) THEN Put(light, xml_name, color_value) ELSE light,
                IF WritesDark(path_str) THEN Put(dark, xml_name, color_value) ELSE dark >>
    ELSE <<light, dark>>

(***************************************************************************)
(* The semantic pass: get_node_value and one visit of                      *)
(* traverse_semantic_colors.                                               *)
(***************************************************************************)
\* nodeRef.split(".")[2:]
RefPaths(nodeRef) == LET parts == Split(nodeRef, ".") IN Slice(parts, 3, Len(parts))

\* a variant of get_node_value that hands the reference back without the lookup
get_node_value_unfollowed(json, nodeRef) == <<"{">> \o nodeRef \o <<"}">>

\* json.get('1. color modes'), then .get(path) for every path, then ['value'];
\* anything but a terminal node holding 'value' ends in an exception
get_node_value(json, nodeRef) ==
    LET paths == RefPaths(nodeRef)
    IN  IF ~HasKey(json, sColorModesRoot) THEN Raised
        ELSE LET tree == Get(json, sColorModesRoot)
                 hits == {k \in DOMAIN tree : tree[k].path = paths /\ tree[k].node.value # None}
             IN  IF hits = {} THEN Raised ELSE tree[CHOOSE k \in hits : TRUE].node.value

\* 'value' in value and isinstance(value['value'], str)
HasStringValue(node) == node.value \notin {None, DictValue}

\* the value at the end of a chain of at most `hops` colour-modes aliases
RECURSIVE FollowAliases(_, _, _)
FollowAliases(json, value, hops) ==
    IF hops = 0 THEN value
    ELSE IF value = Raised THEN value
    ELSE IF ~StartsWith(value, sColorModesRef) THEN value
    ELSE FollowAliases(json, get_node_value(json, Slice(value, 2, Len(value) - 1)), hops - 1)

\* a variant of EffectiveReference that follows a chain of aliases to its end
EffectiveReferenceFollowed(json, value) == FollowAliases(json, value, Len(SemanticUniverse))

\* the reference handed to the resolver: the node's own value, or the value of the
\* colour-modes node it names
EffectiveReference(json, value) ==
    IF StartsWith(value, sColorModesRef)
    THEN get_node_value(json, Slice(value, 2, Len(value) - 1))
    ELSE value

\* f"@color/{primitive_color_name}"
ColorReference(primitive_color_name) == sColorRefPrefix \o primitive_color_name

\* a variant of VisitSemantic without the test of the resolver's result
VisitSemanticUnguarded(leaf, reference, light, dark, primitive_map) ==
    LET primitive_color_name == resolve_color_reference_to_name(reference, primitive_map)
        xml_name == format_xml_name(leaf.path)
        path_str == PathStr(leaf.path)
    IN  IF Contains(path_str, sLightMode)
        THEN <<Put(light, xml_name, ColorReference(primitive_color_name)), dark>>
        ELSE IF Contains(path_str, sDarkMode)
        THEN <<light, Put(dark, xml_name, ColorReference(primitive_color_name))>>
        ELSE <<light, dark>>

\* a variant of VisitSemantic that stores a token without a mode in both maps
VisitSemanticBoth(leaf, reference, light, dark, primitive_map) ==
    LET primitive_color_name == resolve_color_reference_to_name(reference, primitive_map)
        xml_name == format_xml_name(leaf.path)
        path_str == PathStr(leaf.path)
    IN  IF ~Truthy(primitive_color_name) THEN <<light, dark>>
        ELSE IF Contains(path_str, sLightMode)
             THEN <<Put(light, xml_name, ColorReference(primitive_color_name)), dark>>
        ELSE IF Contains(path_str, sDarkMode)
             THEN <<light, Put(dark, xml_name, ColorReference(primitive_color_name))>>
        ELSE <<Put(light, xml_name, ColorReference(primitive_color_name)),
               Put(dark, xml_name, ColorReference(primitive_color_name))>>

\* <<light_semantic, dark_semantic>> after the loop body for one terminal node whose
\* reference did not raise
VisitSemantic(leaf, reference, light, dark, primitive_map) ==
    LET primitive_color_name == resolve_color_reference_to_name(reference, primitive_map)
        xml_name == format_xml_name(leaf.path)
        path_str == PathStr(leaf.path)
    IN  IF ~Truthy(primitive_color_name) THEN <<light, dark>>
        ELSE IF Contains(path_str, sLightMode)
             THEN <<Put(light, xml_name, ColorReference(primitive_color_name)), dark>>
        ELSE IF Contains(path_str, sDarkMode)
             THEN <<light, Put(dark, xml_name, ColorReference(primitive_color_name))>>
        ELSE <<light, dark>>

\* the first root key, in document order, whose lowercase form holds 'color modes'
ColorModesKeys(json) == {k \in DOMAIN json : Contains(Lower(json[k].key), sColorModes)}

ColorModesTree(json) ==
    json[CHOOSE k \in ColorModesKeys(json) : \A j \in ColorModesKeys(json) : k <= j].tree

(***************************************************************************)
(* The gradient pass: format_gradient_name and one visit of                *)
(* traverse_gradient_nodes.                                                *)
(***************************************************************************)
is_gradient_node(node) == node.type = sCustomGradient /\ node.value # None

\* the least position >= from at which `sub` occurs, 0 when there is none
FindStr(s, sub, from) ==
    IF \E k \in from..Len(s) : OccursAt(s, sub, k)
    THEN CHOOSE k \in from..Len(s) :
            OccursAt(s, sub, k) /\ \A j \in from..(k - 1) : ~OccursAt(s, sub, j)
    ELSE 0

RECURSIVE SplitStrFrom(_, _, _)
SplitStrFrom(s, sep, i) ==
    LET e == FindStr(s, sep, i)
    IN  IF e = 0 THEN <<Slice(s, i, Len(s))>>
        ELSE <<Slice(s, i, e - 1)>> \o SplitStrFrom(s, sep, e + Len(sep))

\* str.split(sep) for a separator of any length
SplitStr(s, sep) == SplitStrFrom(s, sep, 1)

\* str.strip()
Strip(s) ==
    IF \A k \in 1..Len(s) : IsSpace(s[k]) THEN <<>>
    ELSE LET a == CHOOSE k \in 1..Len(s) : ~IsSpace(s[k]) /\ \A j \in 1..(k - 1) : IsSpace(s[j])
             b == CHOOSE k \in 1..Len(s) :
                    ~IsSpace(s[k]) /\ \A j \in (k + 1)..Len(s) : IsSpace(s[j])
         IN  Slice(s, a, b)

\* the cleaning of lines 615-620
CleanGradientPart(s) == StripUnderscores(CollapseUnderscores(NonAlnumToUnderscore(s)))

format_gradient_name(parent_name, node_name) ==
    LET parts == SplitStr(node_name, sArrow)
    IN  IF Contains(node_name, sArrow) /\ Contains(node_name, <<"(">>) /\ Len(parts) = 2
        THEN parent_name \o sUnderscore \o Strip(parts[1]) \o sUnderscore
                \o Strip(Split(parts[2], "(")[1])
        ELSE CleanGradientPart(parent_name) \o sUnderscore \o CleanGradientPart(node_name)

\* the name under which a gradient at current_path is stored
GradientName(current_path) ==
    IF Len(current_path) >= 2
    THEN format_gradient_name(current_path[Len(current_path) - 1],
                              current_path[Len(current_path)])
    ELSE format_gradient_name(sGradient, current_path[Len(current_path)])

\* gradient_value.get('rotation', 0)
Rotation(node) == IF Len(node.rotation) = 0 THEN 0 ELSE node.rotation[1]

\* the test of line 665 under which a gradient node is recorded
HasTwoStops(node) == Len(node.stops) >= 2

\* a variant of VisitGradient that records a gradient node whatever its stops are
VisitGradientAnyStops(leaf, grads) ==
    IF is_gradient_node(leaf.node) /\ Len(leaf.node.stops) >= 1
    THEN Put(grads, GradientName(leaf.path),
             [rotation |-> Rotation(leaf.node),
              start_color |-> leaf.node.stops[1],
              end_color |-> leaf.node.stops[Len(leaf.node.stops)]])
    ELSE grads

\* gradients after the loop body for one terminal node
VisitGradient(leaf, grads) ==
    IF is_gradient_node(leaf.node) /\ HasTwoStops(leaf.node)
    THEN Put(grads, GradientName(leaf.path),
             [rotation |-> Rotation(leaf.node),
              start_color |-> leaf.node.stops[1],
              end_color |-> leaf.node.stops[2]])
    ELSE grads

(***************************************************************************)
(* main, as a sequence of steps.  The messages main and its callees write  *)
(* to standard output are kept as the set `diagnostics`.  The dimension    *)
(* maps are not part of the state: of the two spacing passes only the      *)
(* lookups that can end the run are modelled.                              *)
(***************************************************************************)
\* a variant of MissingPrimitives: the test left out
MissingPrimitivesIgnored(json) == FALSE

\* the test of line 563
MissingPrimitives(json) == ~HasKey(json, sPrimitives)

ErrNoPrimitives == "Error: 'primitives' module not found in JSON"
WarnNoColorModes == "Warning: 'color modes' not found in JSON"
WarnNoColorName == "Warning: Could not find color name for reference"
WarnNoSpacing == "Warning: 'spacing' not found in primitives"
WarnNoGradient == "Warning: 'gradient' module not found in JSON"
InfoFoundGradient == "Found gradient"

\* resolve_color_reference_to_name reaches line 437
ResolverWarns(reference, primitive_map) ==
    LET r == Unbrace(reference)
    IN  /\ ~StartsWith(r, <<"#">>)
        /\ (StartsWith(r, sPrimitivesDot) \/ ~StartsWith(r, sColorModesRoot))
        /\ resolve_primitives_reference(r, primitive_map) = None

OutputFiles ==
    {"values/primitive_color.xml", "values-night/primitive_color.xml",
     "values/semantic_color.xml", "values-night/semantic_color.xml",
     "values/dimens.xml", "values/semantic_dimens.xml", "gradients"}

InitMain ==
    /\ data \in Documents
    /\ pc = "start"
    /\ idx = 0
    /\ light_colors = EmptyDict
    /\ dark_colors = EmptyDict
    /\ primitive_color_map = EmptyDict
    /\ light_semantic = EmptyDict
    /\ dark_semantic = EmptyDict
    /\ gradients = EmptyDict
    /\ files = {}
    /\ diagnostics = {}
    /\ call = [fn |-> "main"]
    /\ ret = None

\* lines 562-568 and 301-307: the check for 'primitives', then data['primitives']
Start ==
    /\ pc = "start"
    /\ pc' = IF MissingPrimitives(data) THEN "aborted"
             ELSE IF ~HasKey(data, sPrimitives) THEN "crashed"
             ELSE "primitives"
    /\ diagnostics' = IF MissingPrimitives(data)
                      THEN diagnostics \cup {ErrNoPrimitives}
                      ELSE diagnostics
    /\ idx' = 1
    /\ UNCHANGED <<data, light_colors, dark_colors, primitive_color_map, light_semantic,
                   dark_semantic, gradients, files, call, ret>>

\* one iteration of traverse_primitive_colors that reaches a terminal node
PrimitiveStep ==
    /\ pc = "primitives"
    /\ idx <= Len(Get(data, sPrimitives))
    /\ LET r == VisitPrimitive(Get(data, sPrimitives)[idx], light_colors, dark_colors)
       IN  light_colors' = r[1] /\ dark_colors' = r[2]
    /\ idx' = idx + 1
    /\ UNCHANGED <<data, pc, primitive_color_map, light_semantic, dark_semantic,
                   gradients, files, diagnostics, call, ret>>

\* lines 570-576 and 488-506: the merged map, then the search for the colour-modes key
PrimitivesDone ==
    /\ pc = "primitives"
    /\ idx > Len(Get(data, sPrimitives))
    /\ primitive_color_map' = Update(Update(EmptyDict, light_colors), dark_colors)
    /\ pc' = IF ColorModesKeys(data) = {} THEN "spacing" ELSE "color_modes"
    /\ diagnostics' = IF ColorModesKeys(data) = {}
                      THEN diagnostics \cup {WarnNoColorModes}
                      ELSE diagnostics
    /\ idx' = 1
    /\ UNCHANGED <<data, light_colors, dark_colors, light_semantic, dark_semantic,
                   gradients, files, call, ret>>

\* one iteration of traverse_semantic_colors that reaches a terminal node
SemanticStep ==
    /\ pc = "color_modes"
    /\ idx <= Len(ColorModesTree(data))
    /\ LET leaf == ColorModesTree(data)[idx]
           reference == IF HasStringValue(leaf.node)
                        THEN EffectiveReference(data, leaf.node.value)
                        ELSE None
       IN  IF reference = Raised
           THEN /\ pc' = "crashed"
                /\ UNCHANGED <<idx, light_semantic, dark_semantic, diagnostics>>
           ELSE /\ LET r == IF HasStringValue(leaf.node)
                            THEN VisitSemantic(leaf, reference, light_semantic,
                                               dark_semantic, primitive_color_map)
                            ELSE <<light_semantic, dark_semantic>>
                   IN  light_semantic' = r[1] /\ dark_semantic' = r[2]
                /\ diagnostics' =
                     IF HasStringValue(leaf.node)
                        /\ ResolverWarns(reference, primitive_color_map)
                     THEN diagnostics \cup {WarnNoColorName}
                     ELSE diagnostics
                /\ idx' = idx + 1
                /\ pc' = pc
    /\ UNCHANGED <<data, light_colors, dark_colors, primitive_color_map, gradients,
                   files, call, ret>>

SemanticDone ==
    /\ pc = "color_modes"
    /\ idx > Len(ColorModesTree(data))
    /\ pc' = "spacing"
    /\ idx' = 1
    /\ UNCHANGED <<data, light_colors, dark_colors, primitive_color_map, light_semantic,
                   dark_semantic, gradients, files, diagnostics, call, ret>>

\* 'spacing' in data['primitives']
HasPrimitiveSpacing(json) ==
    \E k \in DOMAIN Get(json, sPrimitives) : Get(json, sPrimitives)[k].path[1] = sSpacing

\* lines 579-580: process_spacing_dimensions tests for its keys,
\* process_semantic_spacing reads data['3. spacing'] without a test
Spacing ==
    /\ pc = "spacing"
    /\ pc' = IF HasKey(data, sSpacingRoot) THEN "gradients" ELSE "crashed"
    /\ diagnostics' = IF HasPrimitiveSpacing(data)
                      THEN diagnostics
                      ELSE diagnostics \cup {WarnNoSpacing}
    /\ idx' = 1
    /\ UNCHANGED <<data, light_colors, dark_colors, primitive_color_map,
                   light_semantic, dark_semantic, gradients, files, call, ret>>

\* one iteration of traverse_gradient_nodes that reaches a terminal node
GradientStep ==
    /\ pc = "gradients"
    /\ HasKey(data, sGradient)
    /\ idx <= Len(Get(data, sGradient))
    /\ gradients' = VisitGradient(Get(data, sGradient)[idx], gradients)
    /\ diagnostics' = LET node == Get(data, sGradient)[idx].node
                      IN  IF is_gradient_node(node) /\ HasTwoStops(node)
                          THEN diagnostics \cup {InfoFoundGradient}
                          ELSE diagnostics
    /\ idx' = idx + 1
    /\ UNCHANGED <<data, pc, light_colors, dark_colors, primitive_color_map,
                   light_semantic, dark_semantic, files, call, ret>>

\* process_gradients returns: no 'gradient' section, or the traversal is over
GradientsDone ==
    /\ pc = "gradients"
    /\ IF HasKey(data, sGradient) THEN idx > Len(Get(data, sGradient)) ELSE TRUE
    /\ diagnostics' = IF HasKey(data, sGradient)
                      THEN diagnostics
                      ELSE diagnostics \cup {WarnNoGradient}
    /\ pc' = "generate"
    /\ UNCHANGED <<data, idx, light_colors, dark_colors, primitive_color_map,
                   light_semantic, dark_semantic, gradients, files, call, ret>>

\* lines 585-589: the mappings are handed to the writers
Generate ==
    /\ pc = "generate"
    /\ files' = OutputFiles
    /\ pc' = "done"
    /\ UNCHANGED <<data, idx, light_colors, dark_colors, primitive_color_map,
                   light_semantic, dark_semantic, gradients, diagnostics, call, ret>>

(***************************************************************************)
(* Direct calls of the pure helpers, on inputs drawn from bounded sets.    *)
(***************************************************************************)
\* the sequences over S of length 1..n
RECURSIVE SeqsUpTo(_, _)
SeqsUpTo(S, n) ==
    IF n = 0 THEN {}
    ELSE LET shorter == SeqsUpTo(S, n - 1)
         IN  {<<x>> : x \in S} \cup shorter \cup {Append(q, x) : q \in shorter, x \in S}

MaxPathLen == 3

PathSegments ==
    {sColors, sBase, sComponent, sGray,
     <<"B","r","a","n","d"," ","(","l","i","g","h","t"," ","m","o","d","e",")">>,
     <<"6","0","0">>,
     <<"6","0","0"," ","(","x",")">>,
     <<"-","-">>}

MaxValueLen == 9

ValueChars == {"#", "A"}

MaxRefLen == 3

RefSegments ==
    {sPrimitives,
     <<"b","l","u","e"," ","d","a","r","k">>,
     <<"b","l","u","e">>,
     <<"d","a","r","k">>,
     <<"b","r","a","n","d">>,
     <<"6","0","0">>}

sBluedark600 == <<"b","l","u","e","d","a","r","k","_","6","0","0">>
sBlueDark600 == <<"b","l","u","e","_","d","a","r","k","_","6","0","0">>
sBrand600 == <<"b","r","a","n","d","_","6","0","0">>

MapKeys == {sBluedark600, sBlueDark600, sBrand600}

\* a braced reference "{a.b.c}" from its segments
BracedRef(segments) == <<"{">> \o Join(segments, sDot) \o <<"}">>

Calls ==
    {[fn |-> "format_xml_name", name_parts |-> p] : p \in SeqsUpTo(PathSegments, MaxPathLen)}
    \cup {[fn |-> "extract_color_value", value |-> v] :
            v \in SeqsUpTo(ValueChars, MaxValueLen) \cup {<<>>}}
    \cup {[fn |-> "resolve_color_reference_to_name",
           reference |-> BracedRef(q),
           primitive_color_map |-> [k \in K |-> <<"#","1","1","2","2","3","3">>]] :
            q \in SeqsUpTo(RefSegments, MaxRefLen), K \in SUBSET MapKeys}

InitCall ==
    /\ call \in Calls
    /\ pc = "call"
    /\ data = <<>>
    /\ idx = 0
    /\ light_colors = EmptyDict
    /\ dark_colors = EmptyDict
    /\ primitive_color_map = EmptyDict
    /\ light_semantic = EmptyDict
    /\ dark_semantic = EmptyDict
    /\ gradients = EmptyDict
    /\ files = {}
    /\ diagnostics = {}
    /\ ret = None

Return(value) ==
    /\ ret' = value
    /\ pc' = "returned"
    /\ UNCHANGED <<data, idx, light_colors, dark_colors, primitive_color_map,
                   light_semantic, dark_semantic, gradients, files, call>>

Silent == UNCHANGED diagnostics

FormatXmlNameCall ==
    /\ pc = "call"
    /\ call.fn = "format_xml_name"
    /\ Return(format_xml_name(call.name_parts))
    /\ Silent

ExtractColorValueCall ==
    /\ pc = "call"
    /\ call.fn = "extract_color_value"
    /\ Return(extract_color_value(call.value))
    /\ Silent

ResolveCall ==
    /\ pc = "call"
    /\ call.fn = "resolve_color_reference_to_name"
    /\ Return(resolve_color_reference_to_name(call.reference, call.primitive_color_map))
    /\ diagnostics' = IF ResolverWarns(call.reference, call.primitive_color_map)
                      THEN diagnostics \cup {WarnNoColorName}
                      ELSE diagnostics

Init == InitMain \/ InitCall

Next ==
    \/ Start
    \/ PrimitiveStep
    \/ PrimitivesDone
    \/ SemanticStep
    \/ SemanticDone
    \/ Spacing
    \/ GradientStep
    \/ GradientsDone
    \/ Generate
    \/ FormatXmlNameCall
    \/ ExtractColorValueCall
    \/ ResolveCall

Spec == Init /\ [][Next]_vars

(***************************************************************************)
(* Properties.                                                             *)
(***************************************************************************)
\* a segment list after the per-segment cleaning, empty segments kept
NormalizedPath(p) == [k \in 1..Len(p) |-> CleanPart(p[k])]

FormatXmlNameReturned == pc = "returned" /\ call.fn = "format_xml_name"

\* C1, as stated: for a path of at least 2 segments whose last segment is purely
\* numeric, format_xml_name returns '<normalized second-to-last>_<last>'; for every
\* other non-empty path it returns the normalized last segment.
C1_Original ==
    FormatXmlNameReturned =>
        LET p == call.name_parts
            n == Len(p)
        IN  IF n >= 2 /\ IsDigit(p[n])
            THEN ret = CleanPart(p[n - 1]) \o sUnderscore \o p[n]
            ELSE ret = CleanPart(p[n])

\* the paths C1 holds for: every segment normalizes to a non-empty string and the
\* first normalized segment is not one of the stripped prefixes
C1_Covered(p) ==
    /\ \A k \in 1..Len(p) : Len(CleanPart(p[k])) > 0
    /\ CleanPart(p[1]) \notin {sColors, sBase, sComponent}

\* C1, amended: for a non-empty path in which every segment normalizes to a
\* non-empty string and whose first normalized segment is none of colors, base,
\* component: with at least 2 segments and a purely numeric normalized last
\* segment, format_xml_name returns '<normalized second-to-last>_<normalized
\* last>'; otherwise it returns the normalized last segment.
C1_Amended ==
    (FormatXmlNameReturned /\ C1_Covered(call.name_parts)) =>
        LET c == NormalizedPath(call.name_parts)
            n == Len(c)
        IN  IF n >= 2 /\ IsDigit(c[n])
            THEN ret = c[n - 1] \o sUnderscore \o c[n]
            ELSE ret = c[n]

\* a call on ["Brand (light mode)", "600"] has returned brand_600
C1_Witness ==
    /\ FormatXmlNameReturned
    /\ call.name_parts =
         << <<"B","r","a","n","d"," ","(","l","i","g","h","t"," ","m","o","d","e",")">>,
            <<"6","0","0">> >>
    /\ C1_Covered(call.name_parts)
    /\ ret = sBrand600

\* the primitive pass is about to visit a terminal node
VisitingPrimitive ==
    pc = "primitives" /\ call.fn = "main" /\ idx <= Len(Get(data, sPrimitives))

PrimitiveLeaf == Get(data, sPrimitives)[idx]

HasLightMarker(leaf) == Contains(PathStr(leaf.path), sLightMode)

HasDarkMarker(leaf) == Contains(PathStr(leaf.path), sDarkMode)

\* C2: a colour token whose path holds "dark mode" and not "light mode" is written
\* to the dark primitive map only; its visit adds nothing to the light map.
C2_DarkOnly ==
    [][(/\ VisitingPrimitive
        /\ is_color_node(PrimitiveLeaf.node)
        /\ HasDarkMarker(PrimitiveLeaf)
        /\ ~HasLightMarker(PrimitiveLeaf))
       => light_colors' = light_colors]_vars

\* #RRGGBBAA without its alpha channel, any other literal as it is
AlphaStripped(v) == IF Len(v) = 9 THEN [k \in 1..7 |-> v[k]] ELSE v

\* C3: a colour token whose path holds neither "light mode" nor "dark mode" is
\* written under its canonical name, with its alpha-stripped value, into both the
\* light and the dark primitive map.
C3_BothMaps ==
    [][(/\ VisitingPrimitive
        /\ is_color_node(PrimitiveLeaf.node)
        /\ ~HasLightMarker(PrimitiveLeaf)
        /\ ~HasDarkMarker(PrimitiveLeaf))
       => LET name == format_xml_name(PrimitiveLeaf.path)
              v == AlphaStripped(PrimitiveLeaf.node.value)
          IN  /\ name \in DOMAIN light_colors' /\ light_colors'[name] = v
              /\ name \in DOMAIN dark_colors' /\ dark_colors'[name] = v]_vars

\* colors/base/brand/600 = #112233FF has been visited first and both maps hold
\* brand_600 -> #112233
C3_Witness ==
    /\ pc = "primitives"
    /\ idx = 2
    /\ Get(data, sPrimitives)[1] = PrimitiveUniverse[1]
    /\ light_colors = (sBrand600 :> <<"#","1","1","2","2","3","3">>)
    /\ dark_colors = (sBrand600 :> <<"#","1","1","2","2","3","3">>)

ExtractColorValueReturned == pc = "returned" /\ call.fn = "extract_color_value"

\* C4: extract_color_value returns the 7-character prefix of a 9-character literal
\* and any literal of another length unchanged; no value stored in the light or the
\* dark primitive map has 9 characters.
C4_AlphaStripped ==
    /\ ExtractColorValueReturned =>
         IF Len(call.value) = 9
         THEN Len(ret) = 7 /\ \A k \in 1..7 : ret[k] = call.value[k]
         ELSE ret = call.value
    /\ \A k \in DOMAIN light_colors : Len(light_colors[k]) # 9
    /\ \A k \in DOMAIN dark_colors : Len(dark_colors[k]) # 9

\* a call on a 9-character literal that starts with '#' has returned 7 characters
C4_Witness ==
    /\ ExtractColorValueReturned
    /\ Len(call.value) = 9
    /\ call.value[1] = "#"
    /\ Len(ret) = 7

\* the primitive name a semantic value refers to: what follows "@color/"
RefName(v) == Slice(v, Len(sColorRefPrefix) + 1, Len(v))

\* C5, as stated: after a full run every name referenced from the light semantic
\* map is a key of the light primitive map, and every name referenced from the dark
\* semantic map is a key of the dark primitive map.
C5_Original ==
    pc = "done" =>
        /\ \A k \in DOMAIN light_semantic : RefName(light_semantic[k]) \in DOMAIN light_colors
        /\ \A k \in DOMAIN dark_semantic : RefName(dark_semantic[k]) \in DOMAIN dark_colors

\* C5, amended: after a full run every name referenced from the light or the dark
\* semantic map is a key of the light or of the dark primitive map (of the merged
\* map the references were resolved against).
C5_Amended ==
    pc = "done" =>
        \A v \in Range(light_semantic) \cup Range(dark_semantic) :
            RefName(v) \in DOMAIN light_colors \cup DOMAIN dark_colors

\* a full run has ended with a light semantic entry whose primitive exists in the
\* dark primitive map alone
C5_Witness ==
    /\ pc = "done"
    /\ \E k \in DOMAIN light_semantic :
         RefName(light_semantic[k]) \in DOMAIN dark_colors \ DOMAIN light_colors

\* the semantic pass is about to visit a terminal node
VisitingSemantic ==
    pc = "color_modes" /\ call.fn = "main" /\ idx <= Len(ColorModesTree(data))

SemanticLeaf == ColorModesTree(data)[idx]

sPrimary == <<"p","r","i","m","a","r","y">>
sButtonPrimary == <<"b","u","t","t","o","n","_","p","r","i","m","a","r","y">>

\* the node of C6 is about to be visited and brand_600 is a key of the primitive map
C6_Case ==
    /\ VisitingSemantic
    /\ SemanticLeaf.path = << sColor, sLightMode, <<"b","u","t","t","o","n">>, sPrimary >>
    /\ SemanticLeaf.node.value =
         <<"{","p","r","i","m","i","t","i","v","e","s",".","c","o","l","o","r","s",".",
           "b","a","s","e",".","b","r","a","n","d",".","6","0","0","}">>
    /\ sBrand600 \in DOMAIN primitive_color_map

\* C6, as stated: the node at color / light mode / button / primary with value
\* "{primitives.colors.base.brand.600}" yields button_primary ->
\* "@reference/brand_600" in the light semantic map and nothing in the dark one.
C6_Original ==
    [][C6_Case =>
        /\ sButtonPrimary \in DOMAIN light_semantic'
        /\ light_semantic'[sButtonPrimary] =
             <<"@","r","e","f","e","r","e","n","c","e","/","b","r","a","n","d","_","6","0","0">>
        /\ dark_semantic' = dark_semantic]_vars

\* C6, amended: that node yields primary -> "@color/brand_600" in the light
\* semantic map (no key button_primary) and nothing in the dark one.
C6_Amended ==
    [][C6_Case =>
        /\ sPrimary \in DOMAIN light_semantic'
        /\ light_semantic'[sPrimary] =
             <<"@","c","o","l","o","r","/","b","r","a","n","d","_","6","0","0">>
        /\ sButtonPrimary \notin DOMAIN light_semantic'
        /\ dark_semantic' = dark_semantic]_vars

\* the node of C6 has been visited first: the light semantic map holds its entry
\* and the dark one is empty
C6_Witness ==
    /\ pc = "color_modes"
    /\ idx = 2
    /\ ColorModesTree(data)[1] = SemanticUniverse[1]
    /\ sBrand600 \in DOMAIN primitive_color_map
    /\ light_semantic =
         (sPrimary :> <<"@","c","o","l","o","r","/","b","r","a","n","d","_","6","0","0">>)
    /\ dark_semantic = EmptyDict

ResolveReturned == pc = "returned" /\ call.fn = "resolve_color_reference_to_name"

\* C7: resolving "{primitives.blue dark.600}" against a map without blue_dark_600
\* and with bluedark_600 returns bluedark_600.
C7_ConcatenatedFamily ==
    (/\ ResolveReturned
     /\ call.reference = BracedRef(<<sPrimitives, <<"b","l","u","e"," ","d","a","r","k">>,
                                     <<"6","0","0">>>>)
     /\ sBlueDark600 \notin DOMAIN call.primitive_color_map
     /\ sBluedark600 \in DOMAIN call.primitive_color_map)
    => ret = sBluedark600

\* strategies 1-3 of resolve_primitives_reference all miss
StrategiesMiss(fp, keys) ==
    /\ ~(Len(fp) >= 2 /\ LastTwoName(fp) \in keys)
    /\ ~(Len(fp) >= 3 /\ LastThreeName(fp) \in keys)
    /\ ~(Len(fp) >= 3 /\ ConcatFamilyName(fp) \in keys)

\* C8: when strategies 1-3 miss, the first purely numeric segment N of the filtered
\* path is paired with the segment P just before it, and 'P_N' is returned whenever
\* it is a key of the primitive map.
C8_FallbackPairsPredecessor ==
    ResolveReturned =>
        LET fp == FilteredParts(Unbrace(call.reference))
            keys == DOMAIN call.primitive_color_map
            nums == {k \in 1..Len(fp) : IsDigit(fp[k])}
        IN  (StrategiesMiss(fp, keys) /\ nums # {}) =>
                LET n == CHOOSE k \in nums : \A j \in nums : k <= j
                IN  (n > 1 /\ (fp[n - 1] \o sUnderscore \o fp[n]) \in keys)
                        => ret = fp[n - 1] \o sUnderscore \o fp[n]

\* a semantic token whose reference cannot be resolved: a braced reference whose
\* colour-modes target does not exist or that matches no key of the primitive map
Unresolvable(json, leaf, primitive_map) ==
    /\ HasStringValue(leaf.node)
    /\ StartsWith(leaf.node.value, <<"{">>)
    /\ LET r == EffectiveReference(json, leaf.node.value)
       IN  r = Raised \/ resolve_color_reference_to_name(r, primitive_map) = None

\* the two semantic maps after the tokens of tree[k..] that are resolvable
RECURSIVE ResolvableOnly(_, _, _, _, _)
ResolvableOnly(json, tree, k, maps, primitive_map) ==
    IF k > Len(tree) THEN maps
    ELSE IF ~HasStringValue(tree[k].node) \/ Unresolvable(json, tree[k], primitive_map)
         THEN ResolvableOnly(json, tree, k + 1, maps, primitive_map)
    ELSE ResolvableOnly(json, tree, k + 1,
             VisitSemantic(tree[k], EffectiveReference(json, tree[k].node.value),
                           maps[1], maps[2], primitive_map),
             primitive_map)

\* C9: an unresolvable reference is not fatal: the semantic pass completes, and the
\* semantic maps are those the other tokens alone produce.
C9_NonFatal ==
    (/\ call.fn = "main"
     /\ pc \in {"color_modes", "spacing", "gradients", "generate", "done", "crashed"}
     /\ HasKey(data, sSpacingRoot)
     /\ ColorModesKeys(data) # {}
     /\ \E k \in DOMAIN ColorModesTree(data) :
            Unresolvable(data, ColorModesTree(data)[k], primitive_color_map))
    => /\ pc # "crashed"
       /\ pc # "color_modes" =>
            <<light_semantic, dark_semantic>> =
                ResolvableOnly(data, ColorModesTree(data), 1, <<EmptyDict, EmptyDict>>,
                               primitive_color_map)

\* C10, as stated: without a 'primitives' root section the run does not abort: the
\* primitive maps are empty and the other passes still run.
C10_Original ==
    (call.fn = "main" /\ MissingPrimitives(data)) =>
        /\ pc # "aborted"
        /\ light_colors = EmptyDict
        /\ dark_colors = EmptyDict

\* C10, amended: without a 'primitives' root section main reports the error and
\* returns right after the test of line 563: no pass runs, every map stays empty
\* and nothing is handed to the writers.
C10_Amended ==
    (call.fn = "main" /\ ~HasKey(data, sPrimitives)) =>
        /\ pc \in {"start", "aborted"}
        /\ light_colors = EmptyDict
        /\ dark_colors = EmptyDict
        /\ primitive_color_map = EmptyDict
        /\ light_semantic = EmptyDict
        /\ dark_semantic = EmptyDict
        /\ gradients = EmptyDict
        /\ files = {}
        /\ pc = "aborted" => diagnostics = {ErrNoPrimitives}

\* a document with colour modes, spacing and gradient sections but no 'primitives'
\* has been loaded and main has returned at line 565
C10_Witness ==
    /\ call.fn = "main"
    /\ ~HasKey(data, sPrimitives)
    /\ ColorModesKeys(data) # {}
    /\ HasKey(data, sGradient)
    /\ pc = "aborted"
    /\ files = {}

\* the gradient pass is about to visit a terminal node
VisitingGradient ==
    /\ pc = "gradients" /\ call.fn = "main"
    /\ HasKey(data, sGradient)
    /\ idx <= Len(Get(data, sGradient))

GradientLeaf == Get(data, sGradient)[idx]

\* the entry a gradient node with at least 2 stops is recorded as
RecordedGradient(node) ==
    [rotation |-> Rotation(node), start_color |-> node.stops[1], end_color |-> node.stops[2]]

\* what C11 and the code agree on: a gradient node with fewer than 2 stops adds no
\* entry; one with at least 2 stops is recorded with its rotation, stops[0].color
\* and stops[1].color
GradientRecording ==
    IF HasTwoStops(GradientLeaf.node)
    THEN /\ GradientName(GradientLeaf.path) \in DOMAIN gradients'
         /\ gradients'[GradientName(GradientLeaf.path)] = RecordedGradient(GradientLeaf.node)
    ELSE gradients' = gradients

\* C11, as stated: a gradient node with fewer than 2 stops is skipped and a
\* diagnostic is emitted for it; a gradient node with at least 2 stops is recorded
\* with rotation, start_color = stops[0].color and end_color = stops[1].color.
C11_Original ==
    [][(VisitingGradient /\ is_gradient_node(GradientLeaf.node)) =>
        /\ GradientRecording
        /\ ~HasTwoStops(GradientLeaf.node) => diagnostics' # diagnostics]_vars

\* C11, amended: a gradient node with fewer than 2 stops is skipped without any
\* message; a gradient node with at least 2 stops is recorded with rotation,
\* start_color = stops[0].color and end_color = stops[1].color.
C11_Amended ==
    [][(VisitingGradient /\ is_gradient_node(GradientLeaf.node)) =>
        /\ GradientRecording
        /\ ~HasTwoStops(GradientLeaf.node) => diagnostics' = diagnostics]_vars

\* the pass went over hero/"600 -> 500 (90deg)" and hero/"single stop": the first is
\* recorded as hero_600_500, the second left no entry and no message
C11_Witness ==
    /\ pc = "gradients"
    /\ HasKey(data, sGradient)
    /\ Get(data, sGradient) = Pick(GradientUniverse, {1, 2})
    /\ idx = 3
    /\ gradients = (<<"h","e","r","o","_","6","0","0","_","5","0","0">> :>
                       [rotation |-> 90,
                        start_color |-> <<"#","A","A","B","B","C","C">>,
                        end_color |-> <<"#","1","1","2","2","3","3">>])
    /\ diagnostics \subseteq {InfoFoundGradient, WarnNoSpacing}

\* a value that names a node of the colour-modes section
IsAlias(value) == StartsWith(value, sColorModesRef)

\* the dotted path an alias names, after the root segment "1. color modes"
AliasPath(value) ==
    LET inner == Slice(value, 2, Len(value) - 1)
        dots == {k \in 1..Len(inner) : inner[k] = "."}
        second == CHOOSE k \in dots : Cardinality({j \in dots : j < k}) = 1
    IN  Slice(inner, second + 1, Len(inner))

\* the nodes of the "1. color modes" section at the path an alias names
AliasTargets(json, value) ==
    IF HasKey(json, sColorModesRoot)
    THEN {t \in Range(Get(json, sColorModesRoot)) :
            HasStringValue(t.node) /\ Join(t.path, sDot) = AliasPath(value)}
    ELSE {}

\* the entry for `leaf` in the bucket of the mode its path names is `reference`
EmittedInModeBucket(leaf, reference, light, dark) ==
    LET xml_name == format_xml_name(leaf.path)
    IN  /\ HasLightMarker(leaf) =>
            xml_name \in DOMAIN light /\ light[xml_name] = reference
        /\ (HasDarkMarker(leaf) /\ ~HasLightMarker(leaf)) =>
            xml_name \in DOMAIN dark /\ dark[xml_name] = reference

\* the semantic node about to be visited is an alias of a colour-modes node whose
\* own value is a primitive-style reference that resolves in the primitive map
OneHopCase ==
    /\ VisitingSemantic
    /\ HasStringValue(SemanticLeaf.node)
    /\ IsAlias(SemanticLeaf.node.value)
    /\ \E t \in AliasTargets(data, SemanticLeaf.node.value) :
          /\ ~IsAlias(t.node.value)
          /\ resolve_color_reference_to_name(t.node.value, primitive_color_map) # None

\* C12: a semantic token whose value is "{1. color modes.<path>}", where the node at
\* <path> holds a primitive-style reference that resolves in the primitive map, is
\* emitted into the bucket of its mode as "@color/<name>", <name> being the name the
\* target's own reference resolves to.
C12_OneHopAlias ==
    [][OneHopCase =>
        \A t \in AliasTargets(data, SemanticLeaf.node.value) :
            EmittedInModeBucket(SemanticLeaf,
                ColorReference(resolve_color_reference_to_name(t.node.value,
                                                               primitive_color_map)),
                light_semantic', dark_semantic')]_vars

\* button/primary -> {primitives.colors.base.brand.600} and its alias
\* button/secondary have been visited: both refer to brand_600
C12_Witness ==
    /\ pc = "color_modes"
    /\ idx = 3
    /\ ColorModesTree(data) = Pick(SemanticUniverse, {1, 2})
    /\ sBrand600 \in DOMAIN primitive_color_map
    /\ light_semantic =
         (sPrimary :> <<"@","c","o","l","o","r","/","b","r","a","n","d","_","6","0","0">>)
         @@ (<<"s","e","c","o","n","d","a","r","y">> :>
               <<"@","c","o","l","o","r","/","b","r","a","n","d","_","6","0","0">>)
    /\ dark_semantic = EmptyDict

\* the reference of the semantic node about to be visited resolves to a primitive
ResolvesTo(name) ==
    /\ VisitingSemantic
    /\ HasStringValue(SemanticLeaf.node)
    /\ LET reference == EffectiveReference(data, SemanticLeaf.node.value)
       IN  /\ reference # Raised
           /\ name # None
           /\ name = resolve_color_reference_to_name(reference, primitive_color_map)

\* C13: a semantic token whose path holds neither "light mode" nor "dark mode" and
\* whose reference resolves is emitted into both the light and the dark semantic map.
C13_BothBuckets ==
    [][\A name \in DOMAIN primitive_color_map :
        (/\ ResolvesTo(name)
         /\ ~HasLightMarker(SemanticLeaf)
         /\ ~HasDarkMarker(SemanticLeaf))
        => LET xml_name == format_xml_name(SemanticLeaf.path)
           IN  /\ xml_name \in DOMAIN light_semantic'
               /\ light_semantic'[xml_name] = ColorReference(name)
               /\ xml_name \in DOMAIN dark_semantic'
               /\ dark_semantic'[xml_name] = ColorReference(name)]_vars

\* the semantic node about to be visited is an alias of a colour-modes node that is
\* an alias itself, and the chain ends in a primitive-style reference that resolves
\* in the primitive map
MultiHopCase ==
    /\ VisitingSemantic
    /\ HasStringValue(SemanticLeaf.node)
    /\ IsAlias(SemanticLeaf.node.value)
    /\ \E t \in AliasTargets(data, SemanticLeaf.node.value) : IsAlias(t.node.value)
    /\ LET end == FollowAliases(data, SemanticLeaf.node.value, Len(SemanticUniverse))
       IN  /\ end # Raised
           /\ ~IsAlias(end)
           /\ resolve_color_reference_to_name(end, primitive_color_map) # None

\* C14, as stated: a semantic token at the head of a chain of two or more aliases
\* that ends in a resolvable primitive reference is emitted as a reference to that
\* final primitive.
C14_Original ==
    [][MultiHopCase =>
        LET end == FollowAliases(data, SemanticLeaf.node.value, Len(SemanticUniverse))
        IN  EmittedInModeBucket(SemanticLeaf,
                ColorReference(resolve_color_reference_to_name(end, primitive_color_map)),
                light_semantic', dark_semantic')]_vars

\* C14, amended: only the first alias of a chain is followed; a semantic token at
\* the head of a chain of two or more aliases is emitted into neither map, without
\* a message, and the pass goes on.
C14_Amended ==
    [][MultiHopCase =>
        /\ light_semantic' = light_semantic
        /\ dark_semantic' = dark_semantic
        /\ diagnostics' = diagnostics
        /\ pc' = pc
        /\ idx' = idx + 1]_vars

\* button/primary, its alias button/secondary and the alias button/tertiary of that
\* alias have been visited with brand_600 in the primitive map: the light map holds
\* primary and secondary and no tertiary
C14_Witness ==
    /\ pc = "color_modes"
    /\ idx = 4
    /\ ColorModesTree(data) = Pick(SemanticUniverse, {1, 2, 3})
    /\ sBrand600 \in DOMAIN primitive_color_map
    /\ DOMAIN light_semantic = {sPrimary, <<"s","e","c","o","n","d","a","r","y">>}
    /\ dark_semantic = EmptyDict

\* the greatest element of a non-empty set of positions
Last(S) == CHOOSE k \in S : \A j \in S : j <= k

\* the number of terminal nodes the primitive pass has visited
PrimitivesVisited ==
    IF pc = "start" \/ ~HasKey(data, sPrimitives) THEN 0
    ELSE IF pc = "primitives" THEN idx - 1
    ELSE Len(Get(data, sPrimitives))

\* the visited colour tokens of the primitive tree written to the light (dark)
\* bucket under `name`, as positions in document order
LightWriters(name) ==
    {k \in 1..PrimitivesVisited :
        LET leaf == Get(data, sPrimitives)[k]
        IN  /\ is_color_node(leaf.node)
            /\ format_xml_name(leaf.path) = name
            /\ (IF Contains(PathStr(leaf.path), sGray)
                THEN ~(HasDarkMarker(leaf) /\ ~HasLightMarker(leaf))
                ELSE TRUE)}

DarkWriters(name) ==
    {k \in 1..PrimitivesVisited :
        LET leaf == Get(data, sPrimitives)[k]
        IN  /\ is_color_node(leaf.node)
            /\ format_xml_name(leaf.path) = name
            /\ (IF Contains(PathStr(leaf.path), sGray)
                THEN ~HasLightMarker(leaf)
                ELSE HasDarkMarker(leaf) \/ ~HasLightMarker(leaf))}

\* the number of terminal nodes the semantic pass has visited
SemanticVisited ==
    IF pc \in {"start", "aborted", "primitives"} \/ ColorModesKeys(data) = {} THEN 0
    ELSE IF pc = "color_modes" THEN idx - 1
    ELSE Len(ColorModesTree(data))

\* the visited semantic tokens written to the light (dark) bucket under `name`
SemanticWriters(name, light) ==
    {k \in 1..SemanticVisited :
        LET leaf == ColorModesTree(data)[k]
        IN  /\ HasStringValue(leaf.node)
            /\ format_xml_name(leaf.path) = name
            /\ (IF light THEN HasLightMarker(leaf)
                ELSE HasDarkMarker(leaf) /\ ~HasLightMarker(leaf))
            /\ LET r == EffectiveReference(data, leaf.node.value)
               IN  r # Raised
                   /\ resolve_color_reference_to_name(r, primitive_color_map) # None}

\* the reference the semantic token at position k is emitted as
SemanticValue(k) ==
    ColorReference(resolve_color_reference_to_name(
        EffectiveReference(data, ColorModesTree(data)[k].node.value), primitive_color_map))

\* the alpha-stripped value of the primitive token at position k
PrimitiveValue(k) == AlphaStripped(Get(data, sPrimitives)[k].node.value)

\* the names under which visited tokens were written to a bucket
NamesOf(tree, n) == {format_xml_name(tree[k].path) : k \in 1..n}

\* what ends a run with an exception: no '3. spacing' section, or an alias whose
\* target get_node_value does not find
OtherError ==
    \/ ~HasKey(data, sSpacingRoot)
    \/ /\ ColorModesKeys(data) # {}
       /\ \E k \in DOMAIN ColorModesTree(data) :
             /\ HasStringValue(ColorModesTree(data)[k].node)
             /\ EffectiveReference(data, ColorModesTree(data)[k].node.value) = Raised

\* C15: when several colour tokens visited in document order normalize to the same
\* name and go to the same bucket, the bucket's final entry for that name holds the
\* value of the token visited last (one entry per name), in the primitive and in
\* the semantic pass, and the collision raises no error.
C15_LastWriteWins ==
    []( /\ (call.fn = "main" /\ pc = "done") =>
                /\ \A name \in DOMAIN light_colors :
                      LightWriters(name) # {}
                      /\ light_colors[name] = PrimitiveValue(Last(LightWriters(name)))
                /\ \A name \in DOMAIN dark_colors :
                      DarkWriters(name) # {}
                      /\ dark_colors[name] = PrimitiveValue(Last(DarkWriters(name)))
                /\ \A name \in DOMAIN light_semantic :
                      SemanticWriters(name, TRUE) # {}
                      /\ light_semantic[name] = SemanticValue(Last(SemanticWriters(name, TRUE)))
                /\ \A name \in DOMAIN dark_semantic :
                      SemanticWriters(name, FALSE) # {}
                      /\ dark_semantic[name] = SemanticValue(Last(SemanticWriters(name, FALSE)))
                /\ PrimitivesVisited > 0 =>
                      \A name \in NamesOf(Get(data, sPrimitives), PrimitivesVisited) :
                          /\ LightWriters(name) # {} => name \in DOMAIN light_colors
                          /\ DarkWriters(name) # {} => name \in DOMAIN dark_colors
                /\ SemanticVisited > 0 =>
                      \A name \in NamesOf(ColorModesTree(data), SemanticVisited) :
                          /\ SemanticWriters(name, TRUE) # {} => name \in DOMAIN light_semantic
                          /\ SemanticWriters(name, FALSE) # {} => name \in DOMAIN dark_semantic
        /\ (call.fn = "main" /\ pc = "crashed") => OtherError)

\* a run has ended in which brand/600 = #112233FF and then brand (dark mode)/600 =
\* #445566 were written as brand_600, and button/primary -> brand_600 and then
\* link/primary -> error_500 were written as primary: each name holds the later value
C15_Witness ==
    /\ pc = "done"
    /\ Get(data, sPrimitives) = Pick(PrimitiveUniverse, {1, 2, 3})
    /\ ColorModesTree(data) = Pick(SemanticUniverse, {1, 5})
    /\ Cardinality(LightWriters(sBrand600)) = 2
    /\ light_colors[sBrand600] = <<"#","4","4","5","5","6","6">>
    /\ Cardinality(SemanticWriters(sPrimary, TRUE)) = 2
    /\ light_semantic =
         (sPrimary :> <<"@","c","o","l","o","r","/","e","r","r","o","r","_","5","0","0">>)

\* a semantic value of the form '<prefix>/<name>' with <name> a key of the merged
\* primitive map
SoundReference(v) ==
    \E name \in DOMAIN primitive_color_map : v = ColorReference(name)

\* the semantic node about to be visited holds a '#' literal, or a reference that
\* no strategy of the resolver matches
NotAReference ==
    /\ VisitingSemantic
    /\ HasStringValue(SemanticLeaf.node)
    /\ ~IsAlias(SemanticLeaf.node.value)
    /\ \/ StartsWith(SemanticLeaf.node.value, <<"#">>)
       \/ resolve_primitives_reference(Unbrace(SemanticLeaf.node.value),
                                       primitive_color_map) = None

\* C16: in every state during and after the semantic pass each value of the light
\* and of the dark semantic map is '@color/<name>' with <name> a key of the merged
\* primitive map handed to the resolver; a token whose value is a '#' literal or
\* matches no strategy adds no entry.
C16_NoBrokenReference ==
    [][/\ \A v \in Range(light_semantic') \cup Range(dark_semantic') :
             SoundReference(v)'
       /\ NotAReference =>
             (light_semantic' = light_semantic /\ dark_semantic' = dark_semantic)]_vars

\* button/primary -> brand_600 has been emitted and the token 'lost', whose
\* reference {primitives.colors.nope.100} matches no key, has been visited and left
\* no entry
C16_Witness ==
    /\ pc = "color_modes"
    /\ idx = 3
    /\ ColorModesTree(data) = Pick(SemanticUniverse, {1, 7})
    /\ light_semantic =
         (sPrimary :> <<"@","c","o","l","o","r","/","b","r","a","n","d","_","6","0","0">>)
    /\ dark_semantic = EmptyDict
    /\ WarnNoColorName \in diagnostics

\* map `after` is map `before` but for the entry `name`
OnlyEntryChanged(before, after, name) ==
    \A n \in (DOMAIN before \cup DOMAIN after) \ {name} :
        n \in DOMAIN before /\ n \in DOMAIN after /\ after[n] = before[n]

====
